---- MODULE Spec2Model ----
(***************************************************************************)
(* PerTeamExtract (nba_analysis_tools/query_tools.py): an extractor that   *)
(* resolves a team name to a team id at construction and then issues two   *)
(* read-only queries (game statistics, draft picks) over parquet tables,   *)
(* each on a short-lived connection of its own.                            *)
(*                                                                         *)
(* Text is a tuple of one-character strings, so that the f-string          *)
(* interpolation of the code and the SQL engine's reading of the resulting *)
(* statement are two different operators.  A Python None and a cell that   *)
(* holds SQL NULL are the empty tuple <<>>, a present value v is <<v>>.    *)
(***************************************************************************)
EXTENDS Integers, Sequences, FiniteSets, TLC

VARIABLES
    team_details,   \* abfs://data/team_details.parquet : rows [nickname, team_id]
    game,           \* abfs://data/game.parquet : rows [game_id, game_date, team_id_home, team_id_away]
    other_stats,    \* abfs://data/other_stats.parquet : rows [game_id, stat]
    draft_history,  \* abfs://data/draft_history.parquet : rows [team_id, season, pick]
    args,           \* the arguments of the constructor call
    inst,           \* "absent" | "init" | "live" | "failed" : the instance under construction or in use
    self,           \* the instance's attributes [team_name, season_start, season_end, team_id]
    frame,          \* the method that called query_parquet: "none" | "init" | "game" | "draft"
    inRun,          \* TRUE while run() is on the call stack
    pc,             \* position inside query_parquet: "idle" | "sql" | "close" | "ret"
    q,              \* the statement handed to query_parquet
    df,             \* what query_parquet hands back: a result or the exception in flight
    team_df,        \* run()'s local team_df
    open,           \* number of connections open now
    connsOpened,    \* number of connections opened so far
    stmts,          \* number of statements q run on the connection opened last
    stmtsTotal,     \* number of statements q run so far
    issued,         \* the statements run so far: [kind, tid]
    runTrace,       \* the run() in progress or finished last: queries issued, exceptions met
    outcome,        \* how the last call of the caller ended: [op, status, error]
    last,           \* per operation, the result of its last successful call
    prev,           \* per operation, the result of the successful call before that
    calls           \* number of operations the caller has invoked on the instance

vars == <<team_details, game, other_stats, draft_history, args, inst, self, frame,
          inRun, pc, q, df, team_df, open, connsOpened, stmts, stmtsTotal, issued,
          runTrace, outcome, last, prev, calls>>

sources == <<team_details, game, other_stats, draft_history>>

-----------------------------------------------------------------------------
(* Bounds of the model. *)

MaxRefRows == 2
MaxGameRows == 2
MaxDraftRows == 2
MaxCalls == 2

-----------------------------------------------------------------------------
(* Text *)

None == <<>>

Some(v) == <<v>>

Quote == "'"

\* Code point of a character: the engine compares VARCHAR values bytewise.
Ord(c) ==
    CASE c = "'" -> 39
      [] c = "-" -> 45
      [] c = "0" -> 48
      [] c = "1" -> 49
      [] c = "2" -> 50
      [] c = "3" -> 51
      [] c = "4" -> 52
      [] c = "5" -> 53
      [] c = "6" -> 54
      [] c = "7" -> 55
      [] c = "8" -> 56
      [] c = "9" -> 57
      [] c = "a" -> 97
      [] c = "b" -> 98

Min(a, b) == IF a <= b THEN a ELSE b

RECURSIVE StrLE(_, _)
\* a <= b on VARCHAR: lexicographic on the characters, a prefix sorts first.
StrLE(a, b) ==
    IF a = <<>> THEN TRUE
    ELSE IF b = <<>> THEN FALSE
    ELSE IF Ord(Head(a)) < Ord(Head(b)) THEN TRUE
    ELSE IF Ord(Head(a)) > Ord(Head(b)) THEN FALSE
    ELSE StrLE(Tail(a), Tail(b))

StrGE(a, b) == StrLE(b, a)

DigitChar(d) == <<"0", "1", "2", "3", "4", "5", "6", "7", "8", "9">>[d + 1]

RECURSIVE Digits(_)
Digits(n) == IF n < 10 THEN <<DigitChar(n)>> ELSE Digits(n \div 10) \o <<DigitChar(n % 10)>>

\* Python's str(int), as the f-string renders {self.season_start} and {self.team_id}.
Str(n) == IF n < 0 THEN <<"-">> \o Digits(-n) ELSE Digits(n)

RECURSIVE ParseDigits(_, _)
ParseDigits(s, acc) ==
    IF s = <<>> THEN acc ELSE ParseDigits(Tail(s), 10 * acc + (Ord(Head(s)) - 48))

\* Whether the text is a numeric literal; any other bare word is read as a column name.
IsNumber(s) ==
    LET body == IF s # <<>> /\ Head(s) = "-" THEN Tail(s) ELSE s
    IN  body # <<>> /\ \A i \in DOMAIN body : body[i] \in {DigitChar(d) : d \in 0..9}

\* The engine's reading of a numeric literal in the statement text.
ParseInt(s) == IF Head(s) = "-" THEN 0 - ParseDigits(Tail(s), 0) ELSE ParseDigits(s, 0)

\* substr(s, 1, n)
Substr(s, n) == SubSeq(s, 1, Min(n, Len(s)))

RECURSIVE ScanLiteral(_, _, _)
\* The engine's lexer on the text that follows an opening quote: '' inside the
\* literal is one quote, a single quote ends the literal.  rest is what follows
\* the literal in the statement; closed is FALSE when the text ends first.
ScanLiteral(text, i, acc) ==
    IF i > Len(text) THEN [closed |-> FALSE, val |-> acc, rest |-> <<>>]
    ELSE IF text[i] # Quote THEN ScanLiteral(text, i + 1, Append(acc, text[i]))
    ELSE IF i < Len(text) /\ text[i + 1] = Quote THEN ScanLiteral(text, i + 2, Append(acc, Quote))
    ELSE [closed |-> TRUE, val |-> acc, rest |-> SubSeq(text, i + 1, Len(text))]

\* '{body}' at the end of a clause: the interpolated text is followed by the
\* template's closing quote.  The literal is well formed when that quote is the
\* one that ends it; anything left over is text the parser rejects.
SqlLiteral(body) ==
    LET s == ScanLiteral(body \o <<Quote>>, 1, <<>>)
    IN  [ok |-> s.closed /\ s.rest = <<>>, val |-> s.val]

-----------------------------------------------------------------------------
(* Result sets.  The engine gives no ordering guarantee, so a result set is   *)
(* the rows with their multiplicities: a set of [row, n].                     *)

\* The rows f[i], i \in DOMAIN f, with the number of times each occurs.
RowsOf(f) ==
    { [row |-> r, n |-> Cardinality({i \in DOMAIN f : f[i] = r})] : r \in {f[i] : i \in DOMAIN f} }

NoDf == [status |-> "none", error |-> "", rows |-> <<>>]

Ok(rows) == [status |-> "ok", error |-> "", rows |-> rows]

Err(e) == [status |-> "err", error |-> e, rows |-> <<>>]

NoQuery == [kind |-> "none", name |-> <<>>, tid |-> <<>>, lo |-> <<>>, hi |-> <<>>]

-----------------------------------------------------------------------------
(* The three statements: how the code writes them, how the engine runs them.  *)

\* _get_team_id: ... WHERE a.nickname = '{self.team_name}'
TeamIdSql(s) ==
    [kind |-> "team", name |-> s.team_name, tid |-> <<>>, lo |-> <<>>, hi |-> <<>>]

\* {self.team_id} in an f-string: str() of the attribute, "None" for None.
Render(team_id) == IF team_id = None THEN <<"N", "o", "n", "e">> ELSE Str(team_id[1])

\* _get_team_game_stats_df: {self.team_id}, '{self.season_start}', '{self.season_end}'
GameStatsSql(s) ==
    [kind |-> "game", name |-> <<>>, tid |-> Render(s.team_id),
     lo |-> Str(s.season_start), hi |-> Str(s.season_end)]

\* DraftLower with the window widened by 5 years instead of 6.
DraftLower_OffByOne(season_start) == season_start - 5

\* The lower bound of the draft window.
DraftLower(season_start) == season_start - 6

\* _get_team_draft_picks_per_season: {self.team_id}, '{self.season_start-6}', '{self.season_end}'
DraftSql(s) ==
    [kind |-> "draft", name |-> <<>>, tid |-> Render(s.team_id),
     lo |-> Str(DraftLower(s.season_start)), hi |-> Str(s.season_end)]

\* SELECT ... FROM team_details AS a WHERE a.nickname = '<name>'
TeamIdSelect(table, stmt) ==
    LET lit == SqlLiteral(stmt.name)
        Match(r) == r.nickname = lit.val
    IN  IF ~lit.ok THEN Err("ParserException") ELSE Ok(SelectSeq(table, Match))

\* WHERE a.team_id_home = <tid> OR a.team_id_away = <tid>
WhereTeam(r, tid) == r.team_id_home = tid \/ r.team_id_away = tid

\* substr(a.game_date, 1, 4) as season
Season(r) == Substr(r.game_date, 4)

\* InSeason without the upper bound.
InSeason_NoUpperBound(season, lo, hi) == StrGE(season, lo)

\* WHERE season >= '<lo>' AND season <= '<hi>'
InSeason(season, lo, hi) == StrGE(season, lo) /\ StrLE(season, hi)

\* CTE_GAME: the projected row of a game.
GameRow(r) ==
    [season |-> Season(r), game_id |-> r.game_id, game_date |-> r.game_date,
     team_id_home |-> r.team_id_home, team_id_away |-> r.team_id_away]

\* LeftJoin as an inner join: games without supplementary rows are dropped.
LeftJoin_Inner(C, gameT, statsT) ==
    {p \in C \X DOMAIN statsT : gameT[p[1]].game_id = statsT[p[2]].game_id}

\* c LEFT JOIN d ON c.game_id = d.game_id over the game rows C (indices of
\* gameT): <<i, j>> pairs game row i with supplementary row j, <<i, 0>> is game
\* row i with its supplementary columns null-filled.
LeftJoin(C, gameT, statsT) ==
    LET Matches(i) == {j \in DOMAIN statsT : gameT[i].game_id = statsT[j].game_id}
    IN  {p \in C \X DOMAIN statsT : p[2] \in Matches(p[1])}
            \cup {<<i, 0>> : i \in {k \in C : Matches(k) = {}}}

\* The game-statistics statement of _get_team_game_stats_df.
GameStatsSelect(gameT, statsT, stmt) ==
    LET tid == ParseInt(stmt.tid)
        lo == SqlLiteral(stmt.lo)
        hi == SqlLiteral(stmt.hi)
        C == {i \in DOMAIN gameT :
                 WhereTeam(gameT[i], tid) /\ InSeason(Season(gameT[i]), lo.val, hi.val)}
        J == LeftJoin(C, gameT, statsT)
        Row(p) == [c |-> GameRow(gameT[p[1]]),
                   d |-> IF p[2] = 0 THEN None ELSE Some(statsT[p[2]])]
    IN  IF ~(lo.ok /\ hi.ok) THEN Err("ParserException")
        ELSE IF ~IsNumber(stmt.tid) THEN Err("BinderException")
        ELSE Ok(RowsOf([p \in J |-> Row(p)]))

\* The draft statement of _get_team_draft_picks_per_season.
DraftSelect(draftT, stmt) ==
    LET tid == ParseInt(stmt.tid)
        lo == SqlLiteral(stmt.lo)
        hi == SqlLiteral(stmt.hi)
        B == {i \in DOMAIN draftT :
                 draftT[i].team_id = tid /\ StrGE(draftT[i].season, lo.val)
                                         /\ StrLE(draftT[i].season, hi.val)}
        Row(i) == draftT[i]
    IN  IF ~(lo.ok /\ hi.ok) THEN Err("ParserException")
        ELSE IF ~IsNumber(stmt.tid) THEN Err("BinderException")
        ELSE Ok(RowsOf([i \in B |-> Row(i)]))

\* conn.sql(q).df() against the files as they are now.
Execute(stmt) ==
    CASE stmt.kind = "team" -> TeamIdSelect(team_details, stmt)
      [] stmt.kind = "game" -> GameStatsSelect(game, other_stats, stmt)
      [] stmt.kind = "draft" -> DraftSelect(draft_history, stmt)

-----------------------------------------------------------------------------
(* query_parquet and the methods that call it *)

Ops == {"game", "draft", "run"}

Running(op) == [op |-> op, status |-> "running", error |-> ""]

Returned(op) == [op |-> op, status |-> "returned", error |-> ""]

Raised(op, e) == [op |-> op, status |-> "raised", error |-> e]

\* A successful call of op hands result to the caller.
Record(op, result) ==
    /\ prev' = [prev EXCEPT ![op] = last[op]]
    /\ last' = [last EXCEPT ![op] = Some(result)]

\* query_parquet, entry: duckdb.connect(), register_filesystem, SET threads.
Enter(fr, stmt) ==
    /\ q' = stmt
    /\ frame' = fr
    /\ pc' = "sql"
    /\ open' = open + 1
    /\ connsOpened' = connsOpened + 1
    /\ stmts' = 0
    /\ df' = NoDf

\* No statement is under way.
Idle ==
    /\ q' = NoQuery
    /\ frame' = "none"
    /\ pc' = "idle"
    /\ df' = NoDf
    /\ UNCHANGED <<open, connsOpened, stmts>>

\* conn.sql(q) is called with the statement.
Issue ==
    /\ stmts' = stmts + 1
    /\ stmtsTotal' = stmtsTotal + 1
    /\ issued' = issued \cup {[kind |-> q.kind, tid |-> q.tid]}
    /\ runTrace' = IF inRun THEN Append(runTrace, q.kind) ELSE runTrace

\* PerTeamExtract(team_name, season_start, season_end, abfs_obj): the attributes
\* are stored and _get_team_id hands its statement to query_parquet.
Construct ==
    /\ inst = "absent"
    /\ inst' = "init"
    /\ self' = [team_name |-> args.team_name, season_start |-> args.season_start,
                season_end |-> args.season_end, team_id |-> None]
    /\ Enter("init", TeamIdSql(self'))
    /\ outcome' = Running("init")
    /\ UNCHANGED <<sources, args, inRun, team_df, stmtsTotal, issued, runTrace,
                   last, prev, calls>>

\* query_parquet: query = conn.sql(q); df = query.df()
ExecSql ==
    /\ pc = "sql"
    /\ df' = Execute(q)
    /\ pc' = "close"
    /\ Issue
    /\ UNCHANGED <<sources, args, inst, self, frame, inRun, q, team_df, open,
                   connsOpened, outcome, last, prev, calls>>

\* query_parquet: the storage or the engine fails while the statement runs.
StorageFailure ==
    /\ pc = "sql"
    /\ df' = Err("StorageError")
    /\ pc' = "close"
    /\ Issue
    /\ UNCHANGED <<sources, args, inst, self, frame, inRun, q, team_df, open,
                   connsOpened, outcome, last, prev, calls>>

\* CloseConn with the close after the statement instead of a with block: an
\* exception skips it.
CloseConn_LeaksOnError ==
    /\ pc = "close"
    /\ open' = IF df.status = "err" THEN open ELSE open - 1
    /\ pc' = "ret"
    /\ UNCHANGED <<sources, args, inst, self, frame, inRun, q, df, team_df,
                   connsOpened, stmts, stmtsTotal, issued, runTrace, outcome,
                   last, prev, calls>>

\* query_parquet: the with block is left, by return or by exception.
CloseConn ==
    /\ pc = "close"
    /\ open' = open - 1
    /\ pc' = "ret"
    /\ UNCHANGED <<sources, args, inst, self, frame, inRun, q, df, team_df,
                   connsOpened, stmts, stmtsTotal, issued, runTrace, outcome,
                   last, prev, calls>>

\* _get_team_id after query_parquet, and the assignment of __init__.
GetTeamIdReturn ==
    /\ pc = "ret" /\ frame = "init"
    /\ LET Named(r) == r.nickname = self.team_name
           picked == SelectSeq(df.rows, Named)
       IN  IF df.status = "err"
             THEN inst' = "failed" /\ outcome' = Raised("init", df.error) /\ self' = self
           ELSE IF Len(df.rows) # 1
             THEN inst' = "failed" /\ outcome' = Raised("init", "AssertionError") /\ self' = self
           ELSE IF picked = <<>>
             THEN inst' = "failed" /\ outcome' = Raised("init", "IndexError") /\ self' = self
           ELSE /\ inst' = "live"
                /\ outcome' = Returned("init")
                /\ self' = [self EXCEPT !.team_id = picked[1].team_id]
    /\ Idle
    /\ UNCHANGED <<sources, args, inRun, team_df, stmtsTotal, issued, runTrace,
                   last, prev, calls>>

\* GameStatsBegin without the assertion on team_id.
GameStatsBegin_NoAssert(op) ==
    outcome' = Running(op) /\ inRun' = (op = "run") /\ Enter("game", GameStatsSql(self))

\* _get_team_game_stats_df up to query_parquet, called as op.
GameStatsBegin(op) ==
    IF self.team_id = None
      THEN outcome' = Raised(op, "AssertionError") /\ inRun' = FALSE /\ Idle
      ELSE outcome' = Running(op) /\ inRun' = (op = "run") /\ Enter("game", GameStatsSql(self))

\* _get_team_draft_picks_per_season up to query_parquet, called as op.
DraftPicksBegin(op) ==
    IF self.team_id = None
      THEN outcome' = Raised(op, "AssertionError") /\ inRun' = FALSE /\ Idle
      ELSE outcome' = Running(op) /\ inRun' = (op = "run") /\ Enter("draft", DraftSql(self))

\* The caller invokes _get_team_game_stats_df().
CallGameStats ==
    /\ inst = "live" /\ pc = "idle" /\ calls < MaxCalls
    /\ calls' = calls + 1
    /\ GameStatsBegin("game")
    /\ UNCHANGED <<sources, args, inst, self, team_df, stmtsTotal, issued, runTrace,
                   last, prev>>

\* The caller invokes _get_team_draft_picks_per_season().
CallDraftPicks ==
    /\ inst = "live" /\ pc = "idle" /\ calls < MaxCalls
    /\ calls' = calls + 1
    /\ DraftPicksBegin("draft")
    /\ UNCHANGED <<sources, args, inst, self, team_df, stmtsTotal, issued, runTrace,
                   last, prev>>

\* The caller invokes run(): its first statement.
CallRun ==
    /\ inst = "live" /\ pc = "idle" /\ calls < MaxCalls
    /\ calls' = calls + 1
    /\ runTrace' = <<>>
    /\ GameStatsBegin("run")
    /\ UNCHANGED <<sources, args, inst, self, team_df, stmtsTotal, issued, last, prev>>

\* _get_team_game_stats_df returns or raises to the caller.
GameStatsReturn ==
    /\ pc = "ret" /\ frame = "game" /\ ~inRun
    /\ IF df.status = "err"
         THEN outcome' = Raised("game", df.error) /\ UNCHANGED <<last, prev>>
         ELSE outcome' = Returned("game") /\ Record("game", df.rows)
    /\ Idle
    /\ UNCHANGED <<sources, args, inst, self, inRun, team_df, stmtsTotal, issued,
                   runTrace, calls>>

\* RunGameStatsRaises with the exception caught by run, which goes on to the
\* draft picks.
RunGameStatsRaises_Continues ==
    /\ pc = "ret" /\ frame = "game" /\ inRun /\ df.status = "err"
    /\ runTrace' = Append(runTrace, "game raised")
    /\ team_df' = Some({})
    /\ DraftPicksBegin("run")
    /\ UNCHANGED <<sources, args, inst, self, stmtsTotal, issued, last, prev, calls>>

\* run(): _get_team_game_stats_df raises, and run has no handler.
RunGameStatsRaises ==
    /\ pc = "ret" /\ frame = "game" /\ inRun /\ df.status = "err"
    /\ outcome' = Raised("run", df.error)
    /\ runTrace' = Append(runTrace, "game raised")
    /\ inRun' = FALSE
    /\ Idle
    /\ UNCHANGED <<sources, args, inst, self, team_df, stmtsTotal, issued, last, prev,
                   calls>>

\* run(): team_df is assigned and the second statement begins.
RunGameStatsReturns ==
    /\ pc = "ret" /\ frame = "game" /\ inRun /\ df.status = "ok"
    /\ team_df' = Some(df.rows)
    /\ DraftPicksBegin("run")
    /\ UNCHANGED <<sources, args, inst, self, stmtsTotal, issued, runTrace, last,
                   prev, calls>>

\* DraftPicksReturn after a method that widened the window in place
\* (self.season_start -= 6) instead of in the statement.
DraftPicksReturn_WidensInPlace ==
    /\ pc = "ret" /\ frame = "draft" /\ ~inRun
    /\ IF df.status = "err"
         THEN outcome' = Raised("draft", df.error) /\ UNCHANGED <<last, prev>>
         ELSE outcome' = Returned("draft") /\ Record("draft", df.rows)
    /\ self' = [self EXCEPT !.season_start = @ - 6]
    /\ Idle
    /\ UNCHANGED <<sources, args, inst, inRun, team_df, stmtsTotal, issued,
                   runTrace, calls>>

\* _get_team_draft_picks_per_season returns or raises to the caller.
DraftPicksReturn ==
    /\ pc = "ret" /\ frame = "draft" /\ ~inRun
    /\ IF df.status = "err"
         THEN outcome' = Raised("draft", df.error) /\ UNCHANGED <<last, prev>>
         ELSE outcome' = Returned("draft") /\ Record("draft", df.rows)
    /\ Idle
    /\ UNCHANGED <<sources, args, inst, self, inRun, team_df, stmtsTotal, issued,
                   runTrace, calls>>

\* RunDraftPicksReturn with run() resetting team_id when it is done.
RunDraftPicksReturn_ClearsTeamId ==
    /\ pc = "ret" /\ frame = "draft" /\ inRun
    /\ IF df.status = "err"
         THEN /\ outcome' = Raised("run", df.error)
              /\ runTrace' = Append(runTrace, "draft raised")
              /\ UNCHANGED <<last, prev>>
         ELSE /\ outcome' = Returned("run")
              /\ runTrace' = runTrace
              /\ Record("run", <<team_df[1], df.rows>>)
    /\ self' = [self EXCEPT !.team_id = None]
    /\ inRun' = FALSE
    /\ team_df' = None
    /\ Idle
    /\ UNCHANGED <<sources, args, inst, stmtsTotal, issued, calls>>

\* run(): the second statement ends; run returns the pair or the exception passes through.
RunDraftPicksReturn ==
    /\ pc = "ret" /\ frame = "draft" /\ inRun
    /\ IF df.status = "err"
         THEN /\ outcome' = Raised("run", df.error)
              /\ runTrace' = Append(runTrace, "draft raised")
              /\ UNCHANGED <<last, prev>>
         ELSE /\ outcome' = Returned("run")
              /\ runTrace' = runTrace
              /\ Record("run", <<team_df[1], df.rows>>)
    /\ inRun' = FALSE
    /\ team_df' = None
    /\ Idle
    /\ UNCHANGED <<sources, args, inst, self, stmtsTotal, issued, calls>>

Next ==
    \/ Construct
    \/ ExecSql
    \/ StorageFailure
    \/ CloseConn
    \/ GetTeamIdReturn
    \/ CallGameStats
    \/ CallDraftPicks
    \/ CallRun
    \/ GameStatsReturn
    \/ RunGameStatsRaises
    \/ RunGameStatsReturns
    \/ DraftPicksReturn
    \/ RunDraftPicksReturn

-----------------------------------------------------------------------------
(* The files and the constructor arguments the model ranges over. *)

\* All tables of at most n rows drawn from Rows.
Tables(Rows, n) == UNION {[1..k -> Rows] : k \in 0..n}

Names == {<<"a">>, <<Quote>>, <<Quote, Quote>>}

TeamIds == {7, 12}

RefRows == [nickname : Names, team_id : {None} \cup {Some(t) : t \in TeamIds}]

In2015 == <<"2", "0", "1", "5", "-", "1">>

In2019 == <<"2", "0", "1", "9", "-", "1">>

Short999 == <<"9", "9", "9">>

\* Games of team 7 at home and away, in and out of the seasons asked for, with a
\* date of fewer than 4 characters, and a game team 7 did not play.
GameRows ==
    { [game_id |-> 1, game_date |-> In2015, team_id_home |-> 7, team_id_away |-> 12],
      [game_id |-> 2, game_date |-> In2015, team_id_home |-> 12, team_id_away |-> 7],
      [game_id |-> 2, game_date |-> In2019, team_id_home |-> 7, team_id_away |-> 12],
      [game_id |-> 1, game_date |-> In2015, team_id_home |-> 12, team_id_away |-> 12],
      [game_id |-> 1, game_date |-> Short999, team_id_home |-> 12, team_id_away |-> 7] }

StatsTables ==
    { <<>>,
      <<[game_id |-> 1, stat |-> 10], [game_id |-> 1, stat |-> 20], [game_id |-> 3, stat |-> 10]>> }

DraftSeasons == {<<"2", "0", "0", "9">>, <<"2", "0", "0", "8">>, <<"9", "9", "9">>}

DraftRows == [team_id : TeamIds, season : DraftSeasons, pick : {1}]

\* <<season_start, season_end>>
SeasonRanges == {<<2015, 2018>>, <<2018, 2015>>, <<999, 2018>>, <<5, 9999>>}

DefaultRef == <<[nickname |-> <<"a">>, team_id |-> Some(7)], [nickname |-> <<"b">>, team_id |-> Some(12)]>>

DefaultGame ==
    <<[game_id |-> 1, game_date |-> <<"2", "0", "1", "5", "-", "1">>, team_id_home |-> 7, team_id_away |-> 12],
      [game_id |-> 2, game_date |-> <<"2", "0", "1", "9", "-", "1">>, team_id_home |-> 12, team_id_away |-> 7]>>

DefaultStats == <<[game_id |-> 1, stat |-> 10]>>

DefaultDraft ==
    <<[team_id |-> 7, season |-> <<"2", "0", "0", "9">>, pick |-> 1],
      [team_id |-> 12, season |-> <<"2", "0", "0", "9">>, pick |-> 1]>>

\* Nothing has run yet: the attributes of self do not exist before __init__.
InitControl ==
    /\ inst = "absent"
    /\ self = [team_name |-> <<>>, season_start |-> 0, season_end |-> 0, team_id |-> None]
    /\ frame = "none" /\ inRun = FALSE /\ pc = "idle"
    /\ q = NoQuery /\ df = NoDf /\ team_df = None
    /\ open = 0 /\ connsOpened = 0 /\ stmts = 0 /\ stmtsTotal = 0
    /\ issued = {} /\ runTrace = <<>>
    /\ outcome = [op |-> "none", status |-> "none", error |-> ""]
    /\ last = [o \in Ops |-> None] /\ prev = [o \in Ops |-> None]
    /\ calls = 0

\* Any reference table, any name.
InitResolve ==
    /\ team_details \in Tables(RefRows, MaxRefRows)
    /\ game = DefaultGame /\ other_stats = DefaultStats /\ draft_history = DefaultDraft
    /\ args \in [team_name : Names, season_start : {2015}, season_end : {2018}]

\* Any game table, any season range.
InitGames ==
    /\ team_details = DefaultRef
    /\ game \in Tables(GameRows, MaxGameRows)
    /\ other_stats \in StatsTables
    /\ draft_history = DefaultDraft
    /\ \E r \in SeasonRanges :
           args = [team_name |-> <<"a">>, season_start |-> r[1], season_end |-> r[2]]

\* Any draft table, any season range.
InitDrafts ==
    /\ team_details = DefaultRef
    /\ game = DefaultGame /\ other_stats = DefaultStats
    /\ draft_history \in Tables(DraftRows, MaxDraftRows)
    /\ \E r \in SeasonRanges :
           args = [team_name |-> <<"a">>, season_start |-> r[1], season_end |-> r[2]]

Init == InitControl /\ (InitResolve \/ InitGames \/ InitDrafts)

Spec == Init /\ [][Next]_vars

-----------------------------------------------------------------------------
(* Properties *)

\* The rows of the reference table whose display name is exactly the name given.
Matching == {i \in DOMAIN team_details : team_details[i].nickname = args.team_name}

\* __init__ has returned or raised.
Constructed == inst \in {"live", "failed"}

\* The resolution statement itself failed (storage, or the engine rejected it).
ResolutionQueryFailed ==
    inst = "failed" /\ outcome.error \in {"StorageError", "ParserException"}

\* C1: a name that equals the display name of exactly one row of the reference
\* table is resolved: construction succeeds and team_id is that row's identifier
\* (the resolution statement having run to its end).
C1_UniqueMatchResolves ==
    (Constructed /\ Cardinality(Matching) = 1 /\ ~ResolutionQueryFailed)
        => /\ inst = "live"
           /\ \A i \in Matching : self.team_id = team_details[i].team_id

\* C2: a name that equals the display name of no row, or of more than one row,
\* makes construction fail with the resolution assertion, so that no instance
\* exists and no extraction statement is ever issued (the resolution statement
\* having run to its end).
C2_NoUniqueMatchFails ==
    (Constructed /\ Cardinality(Matching) # 1 /\ ~ResolutionQueryFailed)
        => /\ inst = "failed"
           /\ outcome = Raised("init", "AssertionError")
           /\ \A x \in issued : x.kind = "team"

\* The result sets the game-statistics operation has handed back, called
\* directly or by run().
GameStatsResults ==
    {last["game"][k] : k \in DOMAIN last["game"]}
        \cup {last["run"][k][1] : k \in DOMAIN last["run"]}

\* The result sets the draft-picks operation has handed back.
DraftPicksResults ==
    {last["draft"][k] : k \in DOMAIN last["draft"]}
        \cup {last["run"][k][2] : k \in DOMAIN last["run"]}

\* C3: for season_start <= season_end, every row the game-statistics operation
\* returns has a season, the first 4 characters of its game date, that is
\* lexicographically >= str(season_start) and <= str(season_end).
C3_GameSeasonsInRange ==
    self.season_start <= self.season_end =>
        \A R \in GameStatsResults : \A x \in R :
            LET season == SubSeq(x.row.c.game_date, 1, Min(4, Len(x.row.c.game_date)))
            IN  /\ x.row.c.season = season
                /\ StrLE(Str(self.season_start), season)
                /\ StrLE(season, Str(self.season_end))

\* A game-statistics call has returned rows for a range with start <= end, and
\* the game table holds a game of the team outside that range.
C3_Witness ==
    /\ self.season_start <= self.season_end
    /\ \E R \in GameStatsResults : R # {}
    /\ \E i \in DOMAIN game :
           /\ game[i].team_id_home = 7
           /\ ~StrLE(Substr(game[i].game_date, 4), Str(self.season_end))

\* C4: the draft-picks operation returns exactly the draft-history rows of the
\* resolved team whose season is lexicographically within
\* [str(season_start - 6), str(season_end)], the subtraction done on integers;
\* season_start = 2015, season_end = 2018 gives the bounds "2009" and "2018".
C4_DraftWindow ==
    /\ \A R \in DraftPicksResults :
           LET lo == Str(self.season_start - 6)
               hi == Str(self.season_end)
               Sel == {i \in DOMAIN draft_history :
                          /\ Some(draft_history[i].team_id) = self.team_id
                          /\ StrLE(lo, draft_history[i].season)
                          /\ StrLE(draft_history[i].season, hi)}
           IN  /\ \A i \in Sel : \E x \in R : x.row = draft_history[i]
               /\ \A x \in R : /\ x.n > 0
                               /\ x.n = Cardinality({i \in Sel : draft_history[i] = x.row})
    /\ (q.kind = "draft" /\ self.season_start = 2015 /\ self.season_end = 2018)
           => (q.lo = <<"2", "0", "0", "9">> /\ q.hi = <<"2", "0", "1", "8">>)

\* A draft call for 2015..2018 has returned a pick of season "2009" and left out
\* a pick of the same team of season "2008".
C4_Witness ==
    /\ self.season_start = 2015 /\ self.season_end = 2018
    /\ \E R \in DraftPicksResults : \E x \in R : x.row.season = <<"2", "0", "0", "9">>
    /\ \E i \in DOMAIN draft_history :
           /\ Some(draft_history[i].team_id) = self.team_id
           /\ draft_history[i].season = <<"2", "0", "0", "8">>

\* C5: the games in the output of the game-statistics operation are exactly the
\* rows of the game table in which the resolved team is the home or the away team
\* and whose season is in range; such a game appears whether or not it has
\* supplementary rows, with null supplementary columns when it has none, and no
\* other game appears.
C5_GamesOfTheTeam ==
    \A R \in GameStatsResults :
        LET Wanted(g) ==
                /\ Some(g.team_id_home) = self.team_id \/ Some(g.team_id_away) = self.team_id
                /\ StrLE(Str(self.season_start), Substr(g.game_date, 4))
                /\ StrLE(Substr(g.game_date, 4), Str(self.season_end))
            Same(c, g) ==
                /\ c.game_id = g.game_id /\ c.game_date = g.game_date
                /\ c.team_id_home = g.team_id_home /\ c.team_id_away = g.team_id_away
            HasStats(g) == \E j \in DOMAIN other_stats : other_stats[j].game_id = g.game_id
        IN  /\ \A i \in DOMAIN game :
                   Wanted(game[i]) => \E x \in R : Same(x.row.c, game[i])
            /\ \A x \in R : \E i \in DOMAIN game : Wanted(game[i]) /\ Same(x.row.c, game[i])
            /\ \A i \in DOMAIN game :
                   (Wanted(game[i]) /\ ~HasStats(game[i]))
                       => \E x \in R : Same(x.row.c, game[i]) /\ x.row.d = None
            /\ \A x \in R : x.row.d # None => x.row.d[1].game_id = x.row.c.game_id

\* A game-statistics call has returned an away game without supplementary rows,
\* null-filled, and a game with its supplementary rows.
C5_Witness ==
    \E R \in GameStatsResults :
        /\ \E x \in R : x.row.d = None /\ x.row.c.team_id_away = 7
        /\ \E x \in R : x.row.d # None

Range(f) == {f[i] : i \in DOMAIN f}

\* C6, as claimed: the two operations of run are not coupled; when the
\* game-statistics statement of a run fails, the draft statement is still issued.
C6_RunIssuesBothQueries ==
    (outcome.op = "run" /\ outcome.status = "raised" /\ "game raised" \in Range(runTrace))
        => "draft" \in Range(runTrace)

\* C6, amended: run issues the game-statistics statement and then the draft
\* statement, in that order, and stops at the first failure: when the
\* game-statistics operation raises, run raises without issuing the draft
\* statement; the draft statement is issued only after the game-statistics
\* operation has returned; run returns only when both have.
C6_RunStopsAtFirstFailure ==
    outcome.op = "run" =>
        /\ runTrace \in { <<>>, <<"game">>, <<"game", "game raised">>, <<"game", "draft">>,
                          <<"game", "draft", "draft raised">> }
        /\ outcome.status = "returned" => runTrace = <<"game", "draft">>
        /\ outcome.status = "raised" =>
               /\ runTrace \in { <<>>, <<"game", "game raised">>,
                                 <<"game", "draft", "draft raised">> }
               /\ runTrace = <<>> => outcome.error = "AssertionError"

\* A run has ended with the exception of its game-statistics statement.
C6_Witness ==
    /\ outcome = Raised("run", "StorageError")
    /\ runTrace = <<"game", "game raised">>

\* C7: no step changes the source tables, and once an operation (game
\* statistics, draft picks, run) has handed back a result set, every later
\* successful call of it on the instance hands back the same result set.
C7_Idempotent ==
    [][ /\ sources' = sources
        /\ \A op \in Ops : last[op] # None => last'[op] = last[op] ]_vars

\* The draft-picks operation has returned twice, with rows.
C7_Witness ==
    /\ prev["draft"] # None
    /\ last["draft"] # None /\ last["draft"][1] # {}
    /\ calls = 2

\* C8: on an instance whose team_id is None every call of an extraction
\* operation raises the assertion, and neither opens a connection nor issues a
\* statement: the resolution at construction stays the only one.
C8_UnresolvedTeamIdRaises ==
    (inst = "live" /\ self.team_id = None) =>
        /\ pc = "idle" /\ open = 0
        /\ connsOpened = 1 /\ stmtsTotal = 1
        /\ \A x \in issued : x.kind = "team"
        /\ calls > 0 => outcome.op \in Ops /\ outcome = Raised(outcome.op, "AssertionError")

\* Both extraction operations have been called on an instance whose team_id is None.
C8_Witness ==
    /\ inst = "live" /\ self.team_id = None
    /\ calls = 2
    /\ outcome = Raised("draft", "AssertionError")

C10_AttributesFrozen ==
    [][ inst = "live" =>
            /\ inst' = "live"
            /\ self' = self
            /\ \A x \in issued' :
                   x.kind # "team" => self.team_id # None /\ x.tid = Str(self.team_id[1]) ]_vars

\* Both extraction statements have been issued and the last call failed.
C10_Witness ==
    /\ inst = "live"
    /\ {x.kind : x \in issued} = {"team", "game", "draft"}
    /\ outcome.status = "raised"

\* The name holds no quote character.
QuoteFree == \A i \in DOMAIN args.team_name : args.team_name[i] # Quote

\* Supporting C1 and C2: for names that hold no quote character the resolution
\* does what C1 and C2 say.
QuoteFreeNamesResolve == QuoteFree => (C1_UniqueMatchResolves /\ C2_NoUniqueMatchFails)

====
